---- MODULE Spec2Model ----
(***************************************************************************)
(* The crawl engine of phayes/crawlbot: the dispatcher loop, the worker    *)
(* pool, the URL registry and the public entry points.                     *)
(*                                                                         *)
(* The repository holds two revisions of the engine, and both are          *)
(* modelled.  The variable rev fixes the revision for a whole behaviour:   *)
(*   rev = "A"  crawlbot.go + worker.go: the registry is the pair of maps  *)
(*              urlstate/urlindex inside Crawler, guarded by urlmux; the   *)
(*              flag c.state is read and written without any lock;         *)
(*              CheckURL is called by the dispatcher; AddURL / GetURL.     *)
(*   rev = "B"  unnamed/part_001 + unnamed/part_000 + the urls type of     *)
(*              doc.go: the registry is the urls type with its own lock;   *)
(*              c.mux guards c.running and the dispatcher's steps;         *)
(*              CheckURL is called by the worker; Add / State.             *)
(*                                                                         *)
(* Granularity.  A step that holds a lock from its first to its last       *)
(* statement and touches nothing outside that lock is one action.  Where   *)
(* the code reads the unlocked flag c.state (rev A) and acts on it later   *)
(* in the same critical section, the read and the act are two actions, so  *)
(* that a Stop or a Start can fall between them.  In rev B the registry    *)
(* calls made under c.mux are split where Add (registry lock only) can     *)
(* fall between them and change what the next call observes.  The state    *)
(* between the invocation of Handler and its return is a state of the      *)
(* worker (task = "handling"): a handler may call Wait there.              *)
(*                                                                         *)
(* Specifications.  Spec and FairSpec are the engine (FairSpec adds the    *)
(* scheduler's fairness).  HookSpec applies the default URL-admission hook *)
(* to every seed list and URL string of the bounded universe.  RegSpec     *)
(* applies urls.changeState to every consistent registry.                  *)
(***************************************************************************)
EXTENDS Integers, FiniteSets, Sequences, TLC

\* ---- bounds of the model ------------------------------------------------
NumURLs == 3
NumWorkers == 1
MaxStarts == 2
MaxSeeds == 2

\* ---- the universe --------------------------------------------------------
URL == 1..NumURLs
NoURL == 0
Gens == 1..MaxStarts
WIdx == 1..NumWorkers
Workers == Gens \X WIdx
NoWorker == <<0, 0>>

StateNotFound == "NotFound"
StatePending == "Pending"
StateRunning == "Running"
StateRejected == "Rejected"
StateDone == "Done"
IndexStates == {StatePending, StateRejected, StateRunning, StateDone}
States == IndexStates \cup {StateNotFound}

\* result.err: nil, the sentinel ErrHeaderRejected, or any other error
ErrNil == "nil"
ErrHeaderRejected == "HeaderRejected"
ErrFetch == "FetchFailed"
ErrRead == "ReadFailed"
Errs == {ErrNil, ErrHeaderRejected, ErrFetch, ErrRead}

\* Crawler.URLs, the seed list
Seeds == {1}

\* what Start's sanity checks can find: a valid configuration, NumWorkers <= 0,
\* Handler == nil, len(URLs) == 0
Configs == {"ok", "noworkers", "nohandler", "noseeds"}

\* Crawler.CheckURL, the caller's admission hook: a fixed predicate that
\* accepts the seeds and every URL but the last one.
CheckURL(u) == u \in Seeds \/ u < NumURLs

VARIABLES
  rev,        \* "A" or "B": the revision of the engine (never changes)
  persistent, \* Crawler.Persistent (rev B only)
  urlstate,   \* URL -> State; NotFound stands for "no key"
  urlindex,   \* State -> set of URLs
  running,    \* Crawler.state (rev A) / Crawler.running (rev B)
  mux,        \* Crawler.urlmux (rev A) / Crawler.mux (rev B): "free", held by a
              \* dispatcher loop across steps ("loop"), or never released ("leaked")
  gen,        \* generation of c.workers: the number of completed Starts
  startpc,    \* the Start call in progress: "idle" or "init" (rev A)
  loop,       \* per generation, the dispatcher goroutine's position
  target,     \* per generation, the worker the loop is about to assign to
  wbusy,      \* worker.state
  wurl,       \* worker.url
  task,       \* per worker, the goroutine launched by process()
  res,        \* per worker, the result it offers on its results channel
  handled,    \* per URL, how many times Handler was invoked with it
  waitpc,     \* the Wait call: "idle", "poll", "check" (rev A), "returned"
  waitzero,   \* rev A: Wait's local numRunning == 0
  crashed,    \* "no", or the unrecovered panic that ended the process
  config,     \* what Start's sanity checks find (never changes)
  startret,   \* how the latest Start call ended: "none", "nil", "error", "panic"
  waiter,     \* the worker whose handler called Wait; NoWorker for another caller
  hookSeeds,  \* defaultCheckURL: crawler.URLs as strings
  hookURL,    \* defaultCheckURL: the argument checkurl
  hookRet,    \* defaultCheckURL: "none" before the call, then "true" / "false"
  stopEver,   \* history: Stop was called at least once
  sinceStop,  \* history: Stop was called and Start was not called since
  waitAfterStop,  \* history: Wait was called after Stop, and Start was not called
                  \* between the two or since
  accepted,   \* history: the URLs seeded by Start, passed to Add / AddURL, or
              \* returned by LinkFinder and accepted by CheckURL
  offered     \* history: the URLs seeded by Start, passed to Add / AddURL, or
              \* carried by a drained result with a nil err

vars == <<rev, persistent, urlstate, urlindex, running, mux, gen, startpc,
          loop, target, wbusy, wurl, task, res, handled, waitpc, waitzero,
          crashed, config, startret, waiter, hookSeeds, hookURL, hookRet,
          stopEver, sinceStop, waitAfterStop, accepted, offered>>

hookVars == <<hookSeeds, hookURL, hookRet>>
fixed == <<rev, persistent, config, hookVars>>
registry == <<urlstate, urlindex>>
workerVars == <<wbusy, wurl, task, res>>
waitVars == <<waitpc, waitzero, waiter>>
flags == <<stopEver, sinceStop, waitAfterStop>>
ghosts == <<accepted, offered>>
history == <<flags, ghosts>>

\* links is what LinkFinder returned, newurls what the worker sends
NoResult == [err |-> ErrNil, url |-> NoURL, newurls |-> {}, links |-> {}]

\* ---- URL strings, for the default admission hook ----------------------------

\* the hosts of the strings; a string is ok when url.Parse accepts it
Hosts == {"a.test", "b.test"}
Strs == [ok : BOOLEAN, host : Hosts]

\* the seed lists: 1..MaxSeeds strings
SeedLists == UNION {[1..n -> Strs] : n \in 1..MaxSeeds}

TypeOK ==
  /\ rev \in {"A", "B"}
  /\ persistent \in BOOLEAN
  /\ urlstate \in [URL -> States]
  /\ urlindex \in [IndexStates -> SUBSET URL]
  /\ running \in BOOLEAN
  /\ mux \in {"free", "leaked", "loop"}
  /\ gen \in 0..MaxStarts
  /\ startpc \in {"idle", "init"}
  /\ loop \in [Gens -> {"none", "run", "assign", "reassign", "exit", "done"}]
  /\ target \in [Gens -> Workers \cup {NoWorker}]
  /\ wbusy \in [Workers -> BOOLEAN]
  /\ wurl \in [Workers -> URL \cup {NoURL}]
  /\ task \in [Workers -> {"none", "fetching", "handling", "sending", "panicked"}]
  /\ res \in [Workers -> [err : Errs, url : URL \cup {NoURL}, newurls : SUBSET URL,
                          links : SUBSET URL]]
  /\ handled \in [URL -> 0..2]
  /\ waitpc \in {"idle", "poll", "check", "returned"}
  /\ waitzero \in BOOLEAN
  /\ crashed \in {"no", "callback", "selectPending", "config", "changeState"}
  /\ config \in Configs
  /\ startret \in {"none", "nil", "error", "panic"}
  /\ waiter \in Workers \cup {NoWorker}
  /\ hookSeeds \in SeedLists \cup {<<>>}
  /\ hookURL \in Strs
  /\ hookRet \in {"none", "true", "false"}
  /\ stopEver \in BOOLEAN /\ sinceStop \in BOOLEAN /\ waitAfterStop \in BOOLEAN
  /\ accepted \in SUBSET URL /\ offered \in SUBSET URL

\* ---- the registry ---------------------------------------------------------

\* len(c.urlindex[s]) / urls.numstate
numstate(s) == Cardinality(urlindex[s])

\* the index built from a state map: initializeURLs / urls.buildIndex
buildIndex(st) == [s \in IndexStates |-> {u \in URL : st[u] = s}]

\* addState with the test for a known URL left out
addStateOverwrite(st, us) ==
  [u \in URL |-> IF u \in us THEN StatePending ELSE st[u]]

\* the state map after inserting every absent URL of us as Pending
addState(st, us) ==
  [u \in URL |-> IF u \in us /\ st[u] = StateNotFound THEN StatePending ELSE st[u]]

\* the index after urls.add: each URL absent from st joins index[Pending]
addIndex(st, ix, us) ==
  [ix EXCEPT ![StatePending] = @ \cup {u \in us : st[u] = StateNotFound}]

\* changeState with the delete from the old state's set left out
changeStateIndexNoDelete(st, ix, u, s) ==
  [ix EXCEPT ![s] = @ \cup {u}]

\* urls.changeState on a present URL: leave the old state's set, join the new
changeStateIndex(st, ix, u, s) ==
  [t \in IndexStates |->
     IF t = s THEN ix[t] \cup {u}
     ELSE IF t = st[u] THEN ix[t] \ {u}
     ELSE ix[t]]

\* the inline transition with the delete from index[Running] left out
drainIndexANoDelete(ix, u, s) == [ix EXCEPT ![s] = @ \cup {u}]

\* the dispatcher's inline transition of rev A: the URL leaves index[Running]
\* (whatever its recorded state) and joins index[s]
drainIndexA(ix, u, s) ==
  [t \in IndexStates |->
     IF t = s THEN ix[t] \cup {u}
     ELSE IF t = StateRunning THEN ix[t] \ {u}
     ELSE ix[t]]

\* the state map after selectPending / assignWork picked u: u is Running
selectPendingState(st, u) == [st EXCEPT ![u] = StateRunning]

\* selectPending with the delete from index[Pending] left out
selectPendingIndexKeep(ix, u) == [ix EXCEPT ![StateRunning] = @ \cup {u}]

\* the index after selectPending / assignWork picked u: u leaves
\* index[Pending] and joins index[Running]
selectPendingIndex(ix, u) ==
  [ix EXCEPT ![StatePending] = @ \ {u}, ![StateRunning] = @ \cup {u}]

\* a final state that sends every failed URL to Rejected
finalStateErrRejected(err) == IF err = ErrNil THEN StateDone ELSE StateRejected

\* the final state a drained result gives its URL
finalState(err) == IF err = ErrHeaderRejected THEN StateRejected ELSE StateDone

\* a termination test that looks at the Running count only
finishedRunningOnly == numstate(StateRunning) = 0

\* the dispatcher's termination test: nothing Running, and nothing Pending
\* or the engine stopped
finished ==
  numstate(StateRunning) = 0 /\ (numstate(StatePending) = 0 \/ ~running)

\* a test for work that reads the flag only
hasWorkFlagOnly == running

\* the dispatcher's test for work to hand out: something Pending and the
\* engine not stopped
hasWork == numstate(StatePending) # 0 /\ running

\* the first worker of c.workers, busy or not
firstWorker == IF gen = 0 THEN NoWorker ELSE <<gen, 1>>

\* the first idle worker of c.workers, or NoWorker
firstIdle ==
  IF gen = 0 \/ \A i \in WIdx : wbusy[<<gen, i>>] THEN NoWorker
  ELSE <<gen, CHOOSE i \in WIdx :
                  /\ ~wbusy[<<gen, i>>]
                  /\ \A j \in WIdx : ~wbusy[<<gen, j>>] => i <= j>>

\* some dispatcher goroutine has been launched and has not returned
loopAlive == \E g \in Gens : loop[g] \in {"run", "assign", "reassign", "exit"}

\* the engine after construction, before any call
EngineInit ==
  /\ rev \in {"A", "B"}
  /\ persistent \in (IF rev = "B" THEN BOOLEAN ELSE {FALSE})
  /\ urlstate = [u \in URL |-> StateNotFound]
  /\ urlindex = [s \in IndexStates |-> {}]
  /\ running = FALSE
  /\ mux = "free"
  /\ gen = 0
  /\ startpc = "idle"
  /\ loop = [g \in Gens |-> "none"]
  /\ target = [g \in Gens |-> NoWorker]
  /\ wbusy = [w \in Workers |-> FALSE]
  /\ wurl = [w \in Workers |-> NoURL]
  /\ task = [w \in Workers |-> "none"]
  /\ res = [w \in Workers |-> NoResult]
  /\ handled = [u \in URL |-> 0]
  /\ waitpc = "idle"
  /\ waitzero = FALSE
  /\ crashed = "no"
  /\ startret = "none"
  /\ waiter = NoWorker
  /\ stopEver = FALSE
  /\ sinceStop = FALSE
  /\ waitAfterStop = FALSE
  /\ accepted = {}
  /\ offered = {}

\* no call of the default admission hook is modelled in the engine's runs
Init ==
  /\ EngineInit
  /\ config \in Configs
  /\ hookSeeds = <<>>
  /\ hookURL = [ok |-> FALSE, host |-> "a.test"]
  /\ hookRet = "none"

\* ---- Start, Stop, Add, Wait ------------------------------------------------

\* sanity checks that let an empty seed list through
saneButSeeds(c) == c \in {"ok", "noseeds"}

\* Start's sanity checks pass: NumWorkers > 0, Handler set, URLs non-empty
sane(c) == c = "ok"

\* Start with the test of the flag left out
startAlways(flag) == TRUE

\* Start's first test: it goes on only when the flag is false
startAllowed(flag) == ~flag

\* rev A, Start up to the end of the sanity checks, with a valid
\* configuration (NumWorkers > 0, Handler set, URLs non-empty): the unlocked
\* test-and-set of c.state.
StartCheckA ==
  /\ rev = "A" /\ crashed = "no"
  /\ startpc = "idle" /\ gen < MaxStarts
  /\ sane(config)
  /\ startAllowed(running)
  /\ running' = TRUE
  /\ startpc' = "init"
  /\ sinceStop' = FALSE
  /\ waitAfterStop' = FALSE
  /\ UNCHANGED <<fixed, startret, registry, mux, gen, loop, target, workerVars,
                 handled, waitVars, crashed, stopEver, ghosts>>

\* rev A, the rest of Start: initializeURLs under urlmux (seeds that are not
\* known become Pending, the index is rebuilt from the state map), a fresh
\* results channel and a fresh c.workers, and the dispatcher goroutine.
StartInitA ==
  /\ rev = "A" /\ crashed = "no"
  /\ startpc = "init" /\ mux = "free"
  /\ urlstate' = addState(urlstate, Seeds)
  /\ urlindex' = buildIndex(urlstate')
  /\ gen' = gen + 1
  /\ loop' = [loop EXCEPT ![gen + 1] = "run"]
  /\ startpc' = "idle"
  /\ startret' = "nil"
  /\ accepted' = accepted \cup Seeds
  /\ offered' = offered \cup Seeds
  /\ UNCHANGED <<fixed, running, mux, target, workerVars, handled,
                 waitVars, crashed, flags>>

\* rev B, Start: one critical section of c.mux.  newUrls(seeds) when the
\* registry is nil, buildIndex otherwise.
StartB ==
  /\ rev = "B" /\ crashed = "no"
  /\ mux = "free" /\ gen < MaxStarts
  /\ sane(config)
  /\ startAllowed(running)
  /\ running' = TRUE
  /\ urlstate' = IF gen = 0
                   THEN [u \in URL |-> IF u \in Seeds THEN StatePending ELSE StateNotFound]
                   ELSE urlstate
  /\ urlindex' = buildIndex(urlstate')
  /\ gen' = gen + 1
  /\ loop' = [loop EXCEPT ![gen + 1] = "run"]
  /\ sinceStop' = FALSE
  /\ waitAfterStop' = FALSE
  /\ startret' = "nil"
  /\ accepted' = accepted \cup Seeds
  /\ offered' = offered \cup Seeds
  /\ UNCHANGED <<fixed, mux, startpc, target, workerVars, handled,
                 waitVars, crashed, stopEver>>

\* Start on an engine whose flag is true: "Cannot start crawler that is
\* already running" is returned (rev B: under c.mux, released on return).
StartRefused ==
  /\ crashed = "no" /\ gen < MaxStarts
  /\ rev = "B" => mux = "free"
  /\ ~startAllowed(running)
  /\ startret' = "error"
  /\ UNCHANGED <<fixed, registry, running, mux, gen, startpc, loop, target,
                 workerVars, handled, waitVars, crashed, history>>

\* Start with a configuration that fails a sanity check: the flag has been
\* set, then the call panics.  Nothing recovers the panic inside the engine;
\* the caller may (the process goes on) or may not (the process ends).
StartPanic ==
  /\ crashed = "no" /\ gen < MaxStarts
  /\ rev = "B" => mux = "free"
  /\ rev = "A" => startpc = "idle"
  /\ ~sane(config)
  /\ startAllowed(running)
  /\ running' = TRUE
  /\ startret' = "panic"
  /\ crashed' \in {"no", "config"}
  /\ sinceStop' = FALSE
  /\ waitAfterStop' = FALSE
  /\ UNCHANGED <<fixed, registry, mux, gen, startpc, loop, target,
                 workerVars, handled, waitVars, stopEver, ghosts>>

\* Stop: rev A writes c.state with no lock; rev B writes c.running under c.mux.
Stop ==
  /\ crashed = "no"
  /\ gen >= 1 \/ startpc = "init" \/ startret = "panic"
  /\ rev = "B" => mux = "free"
  /\ running' = FALSE
  /\ stopEver' = TRUE
  /\ sinceStop' = TRUE
  /\ UNCHANGED <<fixed, startret, registry, mux, gen, startpc, loop, target,
                 workerVars, handled, waitVars, crashed, waitAfterStop, ghosts>>

\* rev A, AddURL: takes urlmux; on a known URL it returns without unlocking.
AddURL(u) ==
  /\ rev = "A" /\ crashed = "no"
  /\ gen >= 1 /\ mux = "free"
  /\ IF urlstate[u] # StateNotFound
       THEN /\ mux' = "leaked"
            /\ UNCHANGED registry
       ELSE /\ urlstate' = [urlstate EXCEPT ![u] = StatePending]
            /\ urlindex' = [urlindex EXCEPT ![StatePending] = @ \cup {u}]
            /\ UNCHANGED mux
  /\ accepted' = accepted \cup {u}
  /\ offered' = offered \cup {u}
  /\ UNCHANGED <<fixed, startret, running, gen, startpc, loop, target,
                 workerVars, handled, waitVars, crashed, flags>>

\* rev B, Add: urls.add([]string{url}) under the registry's own lock.  On a
\* known URL nothing changes, so only the inserting call is a step.
Add(u) ==
  /\ rev = "B" /\ crashed = "no"
  /\ gen >= 1
  /\ urlstate[u] = StateNotFound
  /\ urlstate' = addState(urlstate, {u})
  /\ urlindex' = addIndex(urlstate, urlindex, {u})
  /\ accepted' = accepted \cup {u}
  /\ offered' = offered \cup {u}
  /\ UNCHANGED <<fixed, startret, running, mux, gen, startpc, loop, target,
                 workerVars, handled, waitVars, crashed, flags>>

\* Wait with the count of Running URLs left out of its test
waitCondFlagOnly(zero, flag) == ~flag

\* Wait's test: numRunning == 0 and the flag is false
waitCond(zero, flag) == zero /\ ~flag

\* Wait is called (once) on an engine that has been started, by a caller
\* that is not a handler.
WaitCall ==
  /\ crashed = "no"
  /\ waitpc = "idle" /\ gen >= 1
  /\ waitpc' = "poll"
  /\ waitAfterStop' = sinceStop
  /\ UNCHANGED <<fixed, startret, registry, running, mux, gen, startpc, loop,
                 target, workerVars, handled, waitzero, waiter, crashed, stopEver,
                 sinceStop, ghosts>>

\* rev A, Wait: numRunning is read under the read lock ...
WaitReadA ==
  /\ rev = "A" /\ crashed = "no"
  /\ waitpc = "poll" /\ mux = "free"
  /\ waitzero' = (numstate(StateRunning) = 0)
  /\ waitpc' = "check"
  /\ UNCHANGED <<fixed, startret, registry, running, mux, gen, startpc, loop,
                 target, workerVars, handled, waiter, crashed, history>>

\* ... and c.state is read after the lock is released.
WaitCheckA ==
  /\ rev = "A" /\ crashed = "no"
  /\ waitpc = "check"
  /\ waitpc' = IF waitCond(waitzero, running) THEN "returned" ELSE "poll"
  /\ UNCHANGED <<fixed, startret, registry, running, mux, gen, startpc, loop,
                 target, workerVars, handled, waitzero, waiter, crashed, history>>

\* rev B, Wait: both reads in one critical section of c.mux.  An iteration
\* that finds the condition false changes nothing.
WaitB ==
  /\ rev = "B" /\ crashed = "no"
  /\ waitpc = "poll" /\ mux = "free"
  /\ waitCond(numstate(StateRunning) = 0, running)
  /\ waitpc' = "returned"
  /\ UNCHANGED <<fixed, startret, registry, running, mux, gen, startpc, loop,
                 target, workerVars, handled, waitzero, waiter, crashed, history>>

\* ---- the worker ------------------------------------------------------------

\* the ways one run of the pipeline ends
Outcomes == {"fetchfail", "headerreject", "readfail", "parsefail", "ok", "panic"}

\* worker.go has the parse step; part_000 has none
outcomesOf(r) == IF r = "A" THEN Outcomes ELSE Outcomes \ {"parsefail"}

\* a pipeline that invokes Handler on its last path only
callsHandlerOnSuccess(r, o) == o \in {"parsefail", "ok"}

\* whether the pipeline invokes Handler before it publishes: always, except
\* on header rejection in worker.go (part_000 invokes it there too)
callsHandler(r, o) == o # "headerreject" \/ r = "B"

\* the err of the published result.  A parse failure is stored in resp.Err
\* for the handler only: the result is sent with a nil err.
resultErr(o) ==
  CASE o = "fetchfail" -> ErrFetch
    [] o = "headerreject" -> ErrHeaderRejected
    [] o = "readfail" -> ErrRead
    [] OTHER -> ErrNil

\* the newurls of the published result, links being what LinkFinder returned:
\* worker.go sends them as they are, part_000 keeps those CheckURL accepts
resultURLs(r, o, links) ==
  IF o \notin {"parsefail", "ok"} THEN {}
  ELSE IF r = "A" THEN links
  ELSE {u \in links : CheckURL(u)}

\* handled[u] after one more invocation of Handler
bump(h, u) == [h EXCEPT ![u] = IF @ < 2 THEN @ + 1 ELSE @]

\* The goroutine of process(), from the GET to the invocation of Handler (or
\* to sendResults on the path that does not invoke it).  What the pipeline
\* will publish is fixed by the response: res[w] holds it from here on, links
\* being what LinkFinder returns once Handler has returned.  A panic in a
\* user callback is not recovered anywhere: it ends the process, and no
\* result is published.
WorkerRun(w) ==
  /\ crashed = "no"
  /\ task[w] = "fetching"
  /\ \E o \in outcomesOf(rev), links \in SUBSET URL :
       /\ o \notin {"parsefail", "ok"} => links = {}
       /\ IF o = "panic"
            THEN /\ task' = [task EXCEPT ![w] = "panicked"]
                 /\ crashed' = "callback"
                 /\ UNCHANGED <<res, handled>>
            ELSE /\ task' = [task EXCEPT ![w] = IF callsHandler(rev, o)
                                                  THEN "handling" ELSE "sending"]
                 /\ res' = [res EXCEPT ![w] = [err |-> resultErr(o),
                                               url |-> wurl[w],
                                               newurls |-> resultURLs(rev, o, links),
                                               links |-> links]]
                 /\ handled' = IF callsHandler(rev, o)
                                 THEN bump(handled, wurl[w]) ELSE handled
                 /\ UNCHANGED crashed
  /\ UNCHANGED <<fixed, startret, registry, running, mux, gen, startpc, loop,
                 target, wbusy, wurl, waitVars, history>>

\* The handler, running on the worker's goroutine, calls Wait (the one Wait
\* call of the behaviour).
HandlerWait(w) ==
  /\ crashed = "no"
  /\ task[w] = "handling"
  /\ waitpc = "idle"
  /\ waitpc' = "poll"
  /\ waiter' = w
  /\ waitAfterStop' = sinceStop
  /\ UNCHANGED <<fixed, startret, registry, running, mux, gen, startpc, loop,
                 target, workerVars, handled, waitzero, crashed, stopEver,
                 sinceStop, ghosts>>

\* Handler returns (if it called Wait, Wait has returned); LinkFinder, in
\* rev B the CheckURL filter, and sendResults.
HandlerReturn(w) ==
  /\ crashed = "no"
  /\ task[w] = "handling"
  /\ waiter = w => waitpc = "returned"
  /\ task' = [task EXCEPT ![w] = "sending"]
  /\ accepted' = IF rev = "B" /\ res[w].err = ErrNil
                    THEN accepted \cup {u \in res[w].links : CheckURL(u)}
                    ELSE accepted
  /\ UNCHANGED <<fixed, startret, registry, running, mux, gen, startpc, loop,
                 target, wbusy, wurl, res, handled, waitVars, crashed, flags, offered>>

\* a result offered before Handler has returned
offersEarly(w) == task[w] \in {"handling", "sending"}

\* worker w has reached sendResults: it offers res[w] on its results channel
offers(w) == task[w] = "sending"

\* a worker of generation g offers a result on that generation's channel
resultReady(g) == \E i \in WIdx : offers(<<g, i>>)

\* ---- the dispatcher, rev A ------------------------------------------------

\* the state of a new URL with the admission hook left out
admitAll(u) == StatePending

\* lines 248-254: the state CheckURL gives a new URL
admit(u) == IF CheckURL(u) THEN StatePending ELSE StateRejected

\* case res := <-results, up to the read of c.state at line 260: teardown,
\* the URL's final state, the new URLs through CheckURL.  When there is work
\* and c.state is true the loop goes on to assignWork, still holding urlmux.
DrainA(w) ==
  LET g == w[1]
      r == res[w]
      fin == finalState(r.err)
      st1 == [urlstate EXCEPT ![r.url] = fin]
      ix1 == drainIndexA(urlindex, r.url, fin)
      new == IF r.err = ErrNil THEN {u \in r.newurls : st1[u] = StateNotFound} ELSE {}
      st2 == [u \in URL |-> IF u \in new THEN admit(u) ELSE st1[u]]
      ix2 == [ix1 EXCEPT ![StatePending] = @ \cup {u \in new : CheckURL(u)},
                         ![StateRejected] = @ \cup {u \in new : ~CheckURL(u)}]
  IN
  /\ rev = "A" /\ crashed = "no"
  /\ loop[g] = "run" /\ mux = "free"
  /\ offers(w)
  /\ wbusy' = [wbusy EXCEPT ![w] = FALSE]
  /\ wurl' = [wurl EXCEPT ![w] = NoURL]
  /\ task' = [task EXCEPT ![w] = "none"]
  /\ res' = [res EXCEPT ![w] = NoResult]
  /\ urlstate' = st2
  /\ urlindex' = ix2
  /\ IF ix2[StatePending] = {} \/ ~running
       THEN UNCHANGED <<mux, loop, target>>
       ELSE /\ mux' = "loop"
            /\ loop' = [loop EXCEPT ![g] = "assign"]
            /\ target' = [target EXCEPT ![g] = w]
  /\ accepted' = accepted \cup {u \in new : CheckURL(u)}
  /\ offered' = offered \cup (IF r.err = ErrNil THEN r.newurls ELSE {})
  /\ UNCHANGED <<fixed, startret, running, gen, startpc, handled, waitVars,
                 crashed, flags>>

\* default:, up to the reads of c.state at lines 270 and 275.  The branch
\* that only sleeps changes nothing and is no step.
TickA(g) ==
  /\ rev = "A" /\ crashed = "no"
  /\ loop[g] = "run" /\ mux = "free"
  /\ ~resultReady(g)
  /\ IF finished
       THEN loop' = [loop EXCEPT ![g] = "exit"]
       ELSE /\ hasWork
            /\ loop' = [loop EXCEPT ![g] = "assign"]
  /\ mux' = "loop"
  /\ target' = [target EXCEPT ![g] = NoWorker]
  /\ UNCHANGED <<fixed, startret, registry, running, gen, startpc, workerVars,
                 handled, waitVars, crashed, history>>

\* lines 272-274: c.state = false, unlock, return
ExitA(g) ==
  /\ rev = "A" /\ crashed = "no"
  /\ loop[g] = "exit"
  /\ running' = FALSE
  /\ mux' = "free"
  /\ loop' = [loop EXCEPT ![g] = "done"]
  /\ UNCHANGED <<fixed, startret, registry, gen, startpc, target, workerVars,
                 handled, waitVars, crashed, history>>

\* assignWork, on the worker that published (after a drain) or on the first
\* idle worker of c.workers (after a tick): any Pending URL becomes Running,
\* setup, process.  With no idle worker or nothing Pending only the lock is
\* released.
AssignA(g) ==
  LET w == IF target[g] # NoWorker THEN target[g] ELSE firstIdle IN
  /\ rev = "A" /\ crashed = "no"
  /\ loop[g] = "assign"
  /\ IF w = NoWorker \/ urlindex[StatePending] = {}
       THEN UNCHANGED <<registry, workerVars>>
       ELSE \E u \in urlindex[StatePending] :
              /\ urlstate' = selectPendingState(urlstate, u)
              /\ urlindex' = selectPendingIndex(urlindex, u)
              /\ wbusy' = [wbusy EXCEPT ![w] = TRUE]
              /\ wurl' = [wurl EXCEPT ![w] = u]
              /\ task' = [task EXCEPT ![w] = "fetching"]
              /\ UNCHANGED res
  /\ mux' = "free"
  /\ loop' = [loop EXCEPT ![g] = "run"]
  /\ target' = [target EXCEPT ![g] = NoWorker]
  /\ UNCHANGED <<fixed, startret, running, gen, startpc, handled, waitVars,
                 crashed, history>>

\* ---- the dispatcher, rev B ------------------------------------------------

\* processResult, lines 232-248: under c.mux, teardown, changeState and, when
\* err is nil, add(newurls).  When c.running is set the loop goes on to
\* selectPending, still holding c.mux.
processResult(w) ==
  LET r == res[w]
      fin == finalState(r.err)
      st1 == [urlstate EXCEPT ![r.url] = fin]
      ix1 == changeStateIndex(urlstate, urlindex, r.url, fin)
      us == IF r.err = ErrNil THEN r.newurls ELSE {}
  IN
  /\ urlstate' = addState(st1, us)
  /\ urlindex' = addIndex(st1, ix1, us)
  /\ wbusy' = [wbusy EXCEPT ![w] = FALSE]
  /\ wurl' = [wurl EXCEPT ![w] = NoURL]
  /\ task' = [task EXCEPT ![w] = "none"]
  /\ res' = [res EXCEPT ![w] = NoResult]
  /\ offered' = offered \cup us

DrainB(w) ==
  /\ rev = "B" /\ crashed = "no"
  /\ loop[w[1]] = "run" /\ mux = "free"
  /\ offers(w)
  /\ processResult(w)
  /\ IF running
       THEN /\ mux' = "loop"
            /\ loop' = [loop EXCEPT ![w[1]] = "reassign"]
            /\ target' = [target EXCEPT ![w[1]] = w]
       ELSE UNCHANGED <<mux, loop, target>>
  /\ UNCHANGED <<fixed, startret, running, gen, startpc, handled, waitVars,
                 crashed, flags, accepted>>

\* processResult, lines 249-254: selectPending and, if it returned a URL,
\* setup and process on the worker that published; then c.mux is released.
ReassignB(g) ==
  LET w == target[g] IN
  /\ rev = "B" /\ crashed = "no"
  /\ loop[g] = "reassign"
  /\ IF urlindex[StatePending] = {}
       THEN UNCHANGED <<registry, workerVars>>
       ELSE \E u \in urlindex[StatePending] :
              /\ urlstate' = selectPendingState(urlstate, u)
              /\ urlindex' = selectPendingIndex(urlindex, u)
              /\ wbusy' = [wbusy EXCEPT ![w] = TRUE]
              /\ wurl' = [wurl EXCEPT ![w] = u]
              /\ task' = [task EXCEPT ![w] = "fetching"]
              /\ UNCHANGED res
  /\ mux' = "free"
  /\ loop' = [loop EXCEPT ![g] = "run"]
  /\ target' = [target EXCEPT ![g] = NoWorker]
  /\ UNCHANGED <<fixed, startret, running, gen, startpc, handled, waitVars,
                 crashed, history>>

\* default:, lines 155-157, 162-165 and 175-178: the termination test, the
\* test for work and the search for an idle worker, under c.mux.  Persistent
\* is not read.  The counts are read under the registry lock, which Add
\* takes without c.mux: an Add can fall between the termination test and the
\* exit, so the exit is a step of its own.  With an idle worker found the
\* loop goes on to selectPending, still holding c.mux; the branches that
\* change nothing are no step.
TickB(g) ==
  /\ rev = "B" /\ crashed = "no"
  /\ loop[g] = "run" /\ mux = "free"
  /\ ~resultReady(g)
  /\ IF finished
       THEN /\ loop' = [loop EXCEPT ![g] = "exit"]
            /\ UNCHANGED target
       ELSE /\ hasWork
            /\ firstIdle # NoWorker
            /\ loop' = [loop EXCEPT ![g] = "assign"]
            /\ target' = [target EXCEPT ![g] = firstIdle]
  /\ mux' = "loop"
  /\ UNCHANGED <<fixed, startret, registry, running, gen, startpc, workerVars,
                 handled, waitVars, crashed, history>>

\* lines 159-161: c.running = false, unlock, return
ExitB(g) ==
  /\ rev = "B" /\ crashed = "no"
  /\ loop[g] = "exit"
  /\ running' = FALSE
  /\ mux' = "free"
  /\ loop' = [loop EXCEPT ![g] = "done"]
  /\ UNCHANGED <<fixed, startret, registry, gen, startpc, target, workerVars,
                 handled, waitVars, crashed, history>>

\* lines 166-175: selectPending, the panic when it finds nothing, setup,
\* process, unlock.
SelectB(g) ==
  LET w == target[g] IN
  /\ rev = "B" /\ crashed = "no"
  /\ loop[g] = "assign"
  /\ IF urlindex[StatePending] = {}
       THEN /\ crashed' = "selectPending"
            /\ UNCHANGED <<registry, workerVars, mux, loop, target>>
       ELSE /\ \E u \in urlindex[StatePending] :
                 /\ urlstate' = selectPendingState(urlstate, u)
                 /\ urlindex' = selectPendingIndex(urlindex, u)
                 /\ wbusy' = [wbusy EXCEPT ![w] = TRUE]
                 /\ wurl' = [wurl EXCEPT ![w] = u]
                 /\ task' = [task EXCEPT ![w] = "fetching"]
                 /\ UNCHANGED res
            /\ mux' = "free"
            /\ loop' = [loop EXCEPT ![g] = "run"]
            /\ target' = [target EXCEPT ![g] = NoWorker]
            /\ UNCHANGED crashed
  /\ UNCHANGED <<fixed, startret, running, gen, startpc, handled, waitVars,
                 history>>

\* ---- the specification ------------------------------------------------------

Next ==
  \/ StartCheckA
  \/ StartInitA
  \/ StartB
  \/ StartRefused
  \/ StartPanic
  \/ Stop
  \/ \E u \in URL : AddURL(u)
  \/ \E u \in URL : Add(u)
  \/ WaitCall
  \/ WaitReadA
  \/ WaitCheckA
  \/ WaitB
  \/ \E w \in Workers : WorkerRun(w)
  \/ \E w \in Workers : HandlerWait(w)
  \/ \E w \in Workers : HandlerReturn(w)
  \/ \E w \in Workers : DrainA(w)
  \/ \E g \in Gens : TickA(g)
  \/ \E g \in Gens : ExitA(g)
  \/ \E g \in Gens : AssignA(g)
  \/ \E w \in Workers : DrainB(w)
  \/ \E g \in Gens : TickB(g)
  \/ \E g \in Gens : ExitB(g)
  \/ \E g \in Gens : SelectB(g)
  \/ \E g \in Gens : ReassignB(g)

Spec == Init /\ [][Next]_vars

\* What the scheduler guarantees: a goroutine that can take a step takes it.
\* The steps that need a mutex get strong fairness (a Go mutex hands the lock
\* to a waiter that has been starved).  Start's first half, Stop, Add and the
\* call of Wait are the caller's choice and get none.
Fairness ==
  /\ SF_vars(StartInitA)
  /\ SF_vars(WaitReadA) /\ WF_vars(WaitCheckA) /\ SF_vars(WaitB)
  /\ \A w \in Workers : WF_vars(WorkerRun(w)) /\ WF_vars(HandlerReturn(w))
  /\ \A w \in Workers : SF_vars(DrainA(w)) /\ SF_vars(DrainB(w))
  /\ \A g \in Gens : SF_vars(TickA(g)) /\ SF_vars(TickB(g))
  /\ \A g \in Gens : WF_vars(ExitA(g)) /\ WF_vars(AssignA(g)) /\ WF_vars(SelectB(g))
                     /\ WF_vars(ReassignB(g)) /\ WF_vars(ExitB(g))

FairSpec == Init /\ [][Next]_vars /\ Fairness

\* ---- the default URL-admission hook ------------------------------------------

\* url.Parse: the error, and the Host of the parsed URL
Parse(str) == [err |-> ~str.ok, Host |-> IF str.ok THEN str.host ELSE ""]

\* the hook's loop over crawler.URLs from the i-th seed on: false at the
\* first seed that does not parse, true at the first seed with the URL's
\* host, false when the list is exhausted
RECURSIVE seedLoop(_, _, _)
seedLoop(seeds, i, parsedURL) ==
  IF i > Len(seeds) THEN FALSE
  ELSE IF Parse(seeds[i]).err THEN FALSE
  ELSE IF Parse(seeds[i]).Host = parsedURL.Host THEN TRUE
  ELSE seedLoop(seeds, i + 1, parsedURL)

\* DefaultCheckURL / defaultCheckURL
DefaultCheckURL(seeds, checkurl) ==
  IF Parse(checkurl).err THEN FALSE
  ELSE seedLoop(seeds, 1, Parse(checkurl))

\* the hook is about to be called with any seed list and any URL string, on
\* an engine as constructed
HookInit ==
  /\ EngineInit
  /\ config = "ok"
  /\ hookSeeds \in SeedLists
  /\ hookURL \in Strs
  /\ hookRet = "none"

\* the call of the hook
HookCall ==
  /\ hookRet = "none"
  /\ hookRet' = IF DefaultCheckURL(hookSeeds, hookURL) THEN "true" ELSE "false"
  /\ UNCHANGED <<rev, persistent, config, hookSeeds, hookURL, registry, running,
                 mux, gen, startpc, loop, target, workerVars, handled, waitVars,
                 crashed, startret, history>>

HookNext == HookCall

HookSpec == HookInit /\ [][HookNext]_vars

\* ---- the registry type on its own ----------------------------------------------

\* a presence test that finds every URL
knownAlways(st, u) == TRUE

\* _, ok := u.urls[url]
known(st, u) == st[u] # StateNotFound

\* a registry in any consistent condition: a state map and the index
\* buildIndex gives it, in an engine as constructed
RegInit ==
  /\ rev = "B" /\ persistent = FALSE
  /\ urlstate \in [URL -> States]
  /\ urlindex = buildIndex(urlstate)
  /\ running = FALSE /\ mux = "free" /\ gen = 0 /\ startpc = "idle"
  /\ loop = [g \in Gens |-> "none"]
  /\ target = [g \in Gens |-> NoWorker]
  /\ wbusy = [w \in Workers |-> FALSE]
  /\ wurl = [w \in Workers |-> NoURL]
  /\ task = [w \in Workers |-> "none"]
  /\ res = [w \in Workers |-> NoResult]
  /\ handled = [u \in URL |-> 0]
  /\ waitpc = "idle" /\ waitzero = FALSE /\ waiter = NoWorker
  /\ crashed = "no" /\ startret = "none"
  /\ stopEver = FALSE /\ sinceStop = FALSE /\ waitAfterStop = FALSE
  /\ accepted = {} /\ offered = {}
  /\ config = "ok"
  /\ hookSeeds = <<>>
  /\ hookURL = [ok |-> FALSE, host |-> "a.test"]
  /\ hookRet = "none"

\* urls.changeState(url, state) with any URL and any of the four states the
\* index holds: the panic for an absent URL comes before any write
changeState(u, s) ==
  /\ crashed = "no"
  /\ IF ~known(urlstate, u)
       THEN /\ crashed' = "changeState"
            /\ UNCHANGED registry
       ELSE /\ urlstate' = [urlstate EXCEPT ![u] = s]
            /\ urlindex' = changeStateIndex(urlstate, urlindex, u, s)
            /\ UNCHANGED crashed
  /\ UNCHANGED <<fixed, startret, running, mux, gen, startpc, loop, target,
                 workerVars, handled, waitVars, history>>

RegNext == \E u \in URL : \E s \in IndexStates : changeState(u, s)

RegSpec == RegInit /\ [][RegNext]_vars

\* ---- the claims ---------------------------------------------------------------

Running == {u \in URL : urlstate[u] = StateRunning}
Terminal == {StateDone, StateRejected}

\* C1: in every reachable state the number of URLs in state Running is at
\* most NumWorkers.
C1_RunningAtMostNumWorkers == Cardinality(Running) <= NumWorkers

\* C2: the state map and the index are exact inverses: u is in index[s]
\* exactly when state[u] = s, the four index sets are pairwise disjoint and
\* their union is the key set of the state map.
C2_IndexInverse ==
  /\ \A u \in URL : \A s \in IndexStates : (urlstate[u] = s) <=> (u \in urlindex[s])
  /\ \A s \in IndexStates : \A t \in IndexStates :
       s # t => urlindex[s] \cap urlindex[t] = {}
  /\ UNION {urlindex[s] : s \in IndexStates} = {u \in URL : urlstate[u] # StateNotFound}

\* the case of C2: after a second Start has rebuilt the index, results have
\* been drained and discovered links registered, three index sets are in use
C2_Witness ==
  /\ gen = 2
  /\ urlindex[StateDone] # {} /\ urlindex[StateRejected] # {}
  /\ urlindex[StatePending] # {}

\* the only transitions of a URL's state
Allowed ==
  {<<StateNotFound, StatePending>>, <<StateNotFound, StateRejected>>,
   <<StatePending, StateRunning>>, <<StateRunning, StateDone>>,
   <<StateRunning, StateRejected>>}

\* C3: every change of a URL's state is one of absent -> Pending, absent ->
\* Rejected, Pending -> Running, Running -> Done, Running -> Rejected; so Done
\* and Rejected are final and no known URL goes back to Pending.
C3_Transitions ==
  [][\A u \in URL : urlstate'[u] # urlstate[u]
        => <<urlstate[u], urlstate'[u]>> \in Allowed]_vars

\* the case of C3: a later Start has run on a registry that holds a finished
\* seed, and a worker of the new generation has been given a URL
C3_Witness ==
  /\ gen = 2
  /\ \E u \in Seeds : urlstate[u] \in Terminal
  /\ \E u \in URL : urlstate[u] = StateRunning /\ (\E i \in WIdx : wurl[<<2, i>>] = u)

\* C4: on a non-Persistent engine on which Stop is never called (and no
\* handler calls Wait), every URL in the registry eventually is Done or
\* Rejected.
C4_EveryURLFinishes ==
  \A u \in URL :
    (urlstate[u] # StateNotFound /\ ~persistent)
      ~> (urlstate[u] \in Terminal \/ stopEver \/ crashed # "no" \/ waiter # NoWorker)

\* C5: Handler is invoked at most once per URL, and exactly once for every
\* URL whose pipeline ended in anything but a header rejection.
C5_HandlerOnce ==
  /\ \A u \in URL : handled[u] <= 1
  /\ \A u \in URL : urlstate[u] = StateDone => handled[u] = 1
  /\ \A w \in Workers :
       task[w] = "sending" /\ res[w].err # ErrHeaderRejected => handled[res[w].url] = 1

\* the case of C5: one URL finished after a failed fetch or read, another
\* after a success that brought links
C5_Witness ==
  /\ \E u \in URL : urlstate[u] = StateDone /\ handled[u] = 1
  /\ \E w \in Workers : task[w] = "sending" /\ res[w].err \in {ErrFetch, ErrRead}
  /\ urlindex[StateRejected] # {}

\* C6: when Wait is called after Stop, by a caller that is not a handler, it
\* eventually returns (no later Start, no panic).
C6_WaitAfterStopReturns ==
  (waitAfterStop /\ waitpc = "poll" /\ waiter = NoWorker)
    ~> (waitpc = "returned" \/ ~waitAfterStop \/ crashed # "no")

\* C6, the state in which Wait returns: nothing is Running and the flag is
\* false.
C6_ReturnState ==
  [][(waitAfterStop /\ waitpc # "returned" /\ waitpc' = "returned")
       => (Cardinality(Running)' = 0 /\ ~running')]_vars

\* C7: with Persistent set and no Stop, a started engine keeps its running
\* flag and its loop.
C7_PersistentStaysAlive ==
  (persistent /\ ~stopEver /\ gen >= 1) => (running /\ loop[1] # "done")

\* C8: on a non-Persistent engine, a Wait called after Start, by a caller
\* that is not a handler, returns without Stop.
C8_WaitReturns ==
  (waitpc = "poll" /\ ~persistent /\ waiter = NoWorker)
    ~> (waitpc = "returned" \/ stopEver \/ crashed # "no")

\* C9: after Stop (and until another Start) no URL leaves Pending.
C9_NoAssignAfterStop ==
  [][(sinceStop /\ sinceStop')
       => \A u \in URL : urlstate[u] = StatePending => urlstate'[u] = StatePending]_vars

\* C10: every run of process() publishes a result; none ends without one.
C10_OneResultPerProcess == \A w \in Workers : task[w] # "panicked"

\* C11: the handler call for u has returned before the registry moves u to
\* Done: in the step that makes u Done the handler has been invoked for u,
\* the worker that ran it has reached sendResults, and no worker is still
\* fetching u or inside the handler for u.
C11_HandlerBeforeDone ==
  [][\A u \in URL :
       (urlstate[u] # StateDone /\ urlstate'[u] = StateDone)
         => /\ handled[u] = 1 /\ handled'[u] = 1
            /\ \E w \in Workers : wurl[w] = u /\ task[w] = "sending"
            /\ \A w \in Workers : wurl[w] = u => task[w] \notin {"fetching", "handling"}]_vars

\* the case of C11: one URL is Done after its handler ran, while the handler
\* of another URL has been invoked and has not returned (that URL is Running)
C11_Witness ==
  \E u \in URL, v \in URL, w \in Workers :
    /\ urlstate[u] = StateDone /\ handled[u] = 1
    /\ urlstate[v] = StateRunning /\ wurl[w] = v /\ task[w] = "handling"

\* C12: when the header hook returns false the worker does not invoke the
\* handler: every result that carries the HeaderRejected sentinel has an
\* empty set of new URLs and belongs to a URL the handler was never invoked
\* with.
C12_HeaderRejectNoHandler ==
  \A w \in Workers :
    (task[w] \in {"handling", "sending"} /\ res[w].err = ErrHeaderRejected)
      => (task[w] = "sending" /\ res[w].newurls = {} /\ handled[res[w].url] = 0)

\* C13: when a result is drained the URL's final state depends only on the
\* result's err: the HeaderRejected sentinel gives Rejected and every other
\* outcome gives Done; a failed fetch ends in Done, never in Rejected, with
\* the handler invoked once.
C13_FinalStateByErr ==
  [][\A w \in Workers :
       (task[w] = "sending" /\ task'[w] = "none")
         => /\ urlstate[res[w].url] = StateRunning
            /\ urlstate'[res[w].url] =
                 (IF res[w].err = ErrHeaderRejected THEN StateRejected ELSE StateDone)
            /\ res[w].err \in {ErrFetch, ErrRead}
                 => (handled[res[w].url] = 1 /\ urlstate'[res[w].url] = StateDone)]_vars

\* the case of C13: a header-rejected seed has been drained to Rejected,
\* another URL to Done, and a worker offers the result of a failed fetch
C13_Witness ==
  /\ \E u \in Seeds : urlstate[u] = StateRejected
  /\ \E u \in URL : urlstate[u] = StateDone /\ handled[u] = 1
  /\ \E w \in Workers : task[w] = "sending" /\ res[w].err = ErrFetch

\* C14: when a result with no error is drained, each URL the link extractor
\* returned that is not yet in the registry is registered as Pending if the
\* admission hook accepts it and as Rejected if it rejects it; every other
\* URL keeps its state, and a result with an error registers nothing.  A
\* Rejected URL is not given to a worker and its handler count stays.
C14_AdmissionOnDrain ==
  [][/\ \A w \in Workers :
          (task[w] = "sending" /\ task'[w] = "none")
            => \A u \in URL \ {res[w].url} :
                 IF res[w].err = ErrNil /\ u \in res[w].links
                      /\ urlstate[u] = StateNotFound
                   THEN urlstate'[u] = (IF CheckURL(u) THEN StatePending ELSE StateRejected)
                   ELSE urlstate'[u] = urlstate[u]
     /\ \A u \in URL :
          urlstate[u] = StateRejected
            => /\ urlstate'[u] = StateRejected /\ handled'[u] = handled[u]
               /\ \A w \in Workers : wurl'[w] # u]_vars

\* C15: Add on a URL that is already in the registry, in any state, returns
\* normally and leaves the state map and the index unchanged: the call
\* leaves the registry and its lock as it found them.
C15_AddKnownUnchanged ==
  [][\A u \in URL :
       (urlstate[u] # StateNotFound /\ AddURL(u))
         => (urlstate' = urlstate /\ urlindex' = urlindex /\ mux' = mux)]_vars

\* C16: Start on an engine whose running flag is true returns an error and
\* changes nothing: the step in which a Start call is refused leaves the
\* registry, the workers, the generation, the loops, the flag and the lock
\* as they were, and while the flag is true no Start call gets past its
\* first test, so no generation of workers and no loop is created.
C16_StartRefusedChangesNothing ==
  [][/\ (startret # "error" /\ startret' = "error")
          => (running /\ UNCHANGED <<registry, workerVars, gen, startpc, loop, target,
                                    running, mux, handled>>)
     /\ (running /\ startpc = "idle")
          => /\ startpc' = "idle" /\ gen' = gen
             /\ \A g \in Gens : loop[g] = "none" => loop'[g] = "none"]_vars

\* the case of C16: a Start call was refused while the first generation's
\* loop was running and a worker was fetching
C16_Witness ==
  /\ startret = "error" /\ running /\ gen = 1
  /\ loop[1] = "run" /\ loop[2] = "none"
  /\ \E w \in Workers : task[w] = "fetching"

\* C17: with NumWorkers <= 0, no Handler or no seed, Start fails and no loop
\* and no worker is ever launched; with a valid configuration the step that
\* completes Start registers every seed (Pending when it was absent: all of
\* them on the first Start), creates the NumWorkers idle workers of the new
\* generation and its loop, and returns at once.
C17_StartValidates ==
  [][/\ config # "ok"
          => /\ gen' = 0
             /\ \A g \in Gens : loop'[g] = "none"
             /\ \A w \in Workers : ~wbusy'[w] /\ task'[w] = "none"
             /\ (~running /\ running') => startret' = "panic"
     /\ gen' # gen
          => /\ config = "ok" /\ gen' = gen + 1
             /\ loop[gen'] = "none" /\ loop'[gen'] = "run"
             /\ startret' = "nil"
             /\ \A u \in Seeds :
                  urlstate'[u] = (IF urlstate[u] = StateNotFound
                                    THEN StatePending ELSE urlstate[u])
             /\ gen = 0 => \A u \in Seeds : u \in urlindex'[StatePending]
             /\ Cardinality({w \in Workers : w[1] = gen'}) = NumWorkers
             /\ \A w \in Workers :
                  w[1] = gen' => (~wbusy'[w] /\ task'[w] = "none" /\ wurl'[w] = NoURL)]_vars

\* the case of C17: Start was called with a configuration that fails a
\* sanity check and ended in its panic
C17_Witness ==
  /\ config \in {"noworkers", "nohandler", "noseeds"}
  /\ startret = "panic" /\ gen = 0
  /\ \A g \in Gens : loop[g] = "none"

\* count(Pending) + count(Running) + count(Rejected) + count(Done)
Sum ==
  numstate(StatePending) + numstate(StateRunning) + numstate(StateRejected)
    + numstate(StateDone)

\* C18 as stated: in every reachable state the sum of the four counts is the
\* number of distinct URLs seeded, passed to Add or returned by a link
\* extractor and accepted by the admission hook.
C18_SumEqualsAccepted == Sum = Cardinality(accepted)

\* C18, amended: in every reachable state the URLs of the four index sets are
\* exactly the URLs seeded by Start, passed to Add or carried by a drained
\* result with no error (whether the admission hook accepted or rejected
\* them), the sum of the four counts is their number, and no step decreases it.
C18_SumEqualsOffered ==
  [][/\ UNION {urlindex[s] : s \in IndexStates} = offered
     /\ Sum = Cardinality(offered)
     /\ Sum' = Cardinality(offered')
     /\ Sum' >= Sum]_vars

\* the case of C18: results have been drained, a link the admission hook
\* rejected is in the registry, and the sum differs from the number of
\* accepted URLs
C18_Witness ==
  /\ urlindex[StateDone] # {}
  /\ \E u \in urlindex[StateRejected] : ~CheckURL(u) /\ u \notin accepted
  /\ Sum = Cardinality(offered) /\ Sum # Cardinality(accepted)

\* C19: a Wait called from inside a handler never returns: while the handler
\* is blocked in Wait its worker has not published, the URL it handles is
\* Running, and Wait has not returned.
C19_WaitInHandlerNeverReturns ==
  waiter # NoWorker
    => /\ waitpc # "returned"
       /\ task[waiter] = "handling"
       /\ urlstate[wurl[waiter]] = StateRunning
       /\ wurl[waiter] \in urlindex[StateRunning]

\* the case of C19: a handler is blocked in Wait, Stop has cleared the flag
\* and every other URL has finished, so the URL being handled is the only
\* thing Wait still waits for
C19_Witness ==
  /\ waiter # NoWorker /\ waitpc \in {"poll", "check"}
  /\ ~running /\ stopEver
  /\ urlindex[StateRunning] = {wurl[waiter]}
  /\ urlindex[StateDone] # {}

\* C20: the default admission hook accepts a URL exactly when the URL parses
\* and its host is the host of at least one seed that parses, for every seed
\* list, whatever the position of a seed that does not parse.
C20_AcceptsIffSeedHost ==
  hookRet # "none"
    => ((hookRet = "true")
          <=> (/\ hookURL.ok
               /\ \E i \in 1..Len(hookSeeds) :
                    hookSeeds[i].ok /\ hookSeeds[i].host = hookURL.host))

\* C21: selectPending is one atomic step.  A step that hands a URL u to a
\* worker takes u from index[Pending], where the state map has it Pending,
\* makes it Running in the state map and in the index, and touches no other
\* URL; a select that finds nothing Pending changes nothing.  Whatever Add
\* calls interleave, no URL is handed out while another worker holds it.
C21_SelectPendingAtomic ==
  [][/\ \A w \in Workers :
          (wurl'[w] # wurl[w] /\ wurl'[w] # NoURL) =>
            LET u == wurl'[w] IN
            /\ u \in urlindex[StatePending] /\ urlstate[u] = StatePending
            /\ urlstate' = [urlstate EXCEPT ![u] = StateRunning]
            /\ urlindex'[StatePending] = urlindex[StatePending] \ {u}
            /\ urlindex'[StateRunning] = urlindex[StateRunning] \cup {u}
            /\ urlindex'[StateDone] = urlindex[StateDone]
            /\ urlindex'[StateRejected] = urlindex[StateRejected]
            /\ \A v \in Workers : v # w => wurl[v] # u
     /\ \A g \in Gens :
          (/\ loop[g] \in {"assign", "reassign"} /\ loop'[g] = "run"
           /\ urlindex[StatePending] = {})
            => UNCHANGED <<registry, workerVars>>]_vars

\* a URL has been selected for a worker while another URL is Pending
C21_Witness ==
  \E w \in Workers :
    /\ task[w] = "fetching" /\ wurl[w] # NoURL
    /\ urlstate[wurl[w]] = StateRunning
    /\ urlindex[StatePending] # {}

\* C22: changeState on an absent URL fails and leaves the state map and the
\* index unchanged; on a present URL u it gives u the new state s, takes u
\* out of the index set of its old state and puts it into index[s], and
\* leaves every other URL where it was.
C22_ChangeState ==
  [][\/ crashed' = "changeState" /\ UNCHANGED registry
     \/ \E u \in URL : \E s \in IndexStates :
          /\ urlstate[u] # StateNotFound
          /\ crashed' = crashed
          /\ urlstate' = [urlstate EXCEPT ![u] = s]
          /\ \A t \in IndexStates :
               urlindex'[t] = (urlindex[t] \ {u}) \cup (IF t = s THEN {u} ELSE {})
          /\ \A v \in URL : v # u =>
               \A t \in IndexStates : (v \in urlindex'[t]) <=> (v \in urlindex[t])]_vars

\* changeState has failed on an absent URL of a registry that holds others,
\* one of them outside the state it had when it was added
C22_Witness ==
  /\ crashed = "changeState"
  /\ \E u \in URL : urlstate[u] = StateNotFound
  /\ \E u \in URL : urlstate[u] = StateDone /\ u \in urlindex[StateDone]

\* C23: the dispatcher loop exits only with nothing Running and no worker
\* in flight, and the running flag is false once it has exited; when it
\* exits in a behaviour in which Stop was never called, every URL of the
\* registry is Done or Rejected at that moment.
C23_ExitOnlyWhenAllDone ==
  [][\A g \in Gens :
       (loop[g] # "done" /\ loop'[g] = "done") =>
         /\ urlindex[StateRunning] = {}
         /\ \A w \in Workers : task[w] = "none" /\ ~wbusy[w]
         /\ ~running'
         /\ ~stopEver =>
              \A u \in URL : urlstate'[u] \in Terminal \cup {StateNotFound}]_vars

\* C24: the drain of an error-free result makes its URL Done and registers
\* every link the admission hook accepts in the same step, so no tick sees
\* the URL Done with an accepted link still unknown; and a tick decides on
\* natural termination (the flag still set) only when every registered URL
\* is Done or Rejected, so a URL added while another was Running is
\* finished before the engine terminates naturally.
C24_DoneWithLinksThenExit ==
  [][/\ \A w \in Workers :
          (task[w] = "sending" /\ task'[w] = "none" /\ res[w].err = ErrNil) =>
            /\ urlstate[res[w].url] = StateRunning
            /\ urlstate'[res[w].url] = StateDone
            /\ \A v \in res[w].links :
                 CheckURL(v) => urlstate'[v] # StateNotFound
     /\ \A g \in Gens :
          (loop[g] = "run" /\ loop'[g] = "exit" /\ running) =>
            \A v \in URL : urlstate[v] \in Terminal \cup {StateNotFound}]_vars

\* the engine has terminated naturally after at least two URLs were crawled
\* to Done, the second one registered while the engine ran
C24_Witness ==
  /\ ~stopEver /\ ~running /\ crashed = "no"
  /\ \E g \in Gens : loop[g] = "done"
  /\ Cardinality(urlindex[StateDone]) >= 2

\* the correspondence between busy workers and Running URLs
C25_Bijection ==
  /\ \A w \in Workers : wbusy[w] <=> task[w] \in {"fetching", "handling", "sending"}
  /\ \A w \in Workers : wbusy[w] =>
       /\ wurl[w] # NoURL
       /\ urlstate[wurl[w]] = StateRunning
       /\ wurl[w] \in urlindex[StateRunning]
  /\ \A w \in Workers : \A v \in Workers :
       (wbusy[w] /\ wbusy[v] /\ w # v) => wurl[w] # wurl[v]
  /\ \A u \in URL :
       (urlstate[u] = StateRunning \/ u \in urlindex[StateRunning]) =>
         \E w \in Workers : wbusy[w] /\ wurl[w] = u

\* C25: in every state where the engine lock is free (and no panic has
\* killed the process) a worker is busy exactly when it has a task in flight
\* or a result not yet drained, each busy worker holds a Running URL, no two
\* busy workers hold the same URL and every Running URL is held by a busy
\* worker; and no step gives a busy worker another URL: its URL changes only
\* when its result is drained.
C25_BusyWorkersMatchRunning ==
  [][/\ (mux' = "free" /\ crashed' = "no") => C25_Bijection'
     /\ \A w \in Workers :
          (wbusy[w] /\ wurl'[w] # wurl[w]) =>
            (task[w] = "sending" /\ wurl'[w] = NoURL /\ ~wbusy'[w])]_vars

\* the lock is free, a worker is busy fetching one URL, a worker of the
\* other generation is idle, and another URL waits
C25_Witness ==
  /\ mux = "free" /\ crashed = "no"
  /\ \E w \in Workers : wbusy[w] /\ task[w] = "fetching"
  /\ \E w \in Workers : ~wbusy[w] /\ w[1] = gen /\ gen = 2
  /\ urlindex[StatePending] # {}

\* C26: every registry operation releases the lock it took on every return
\* path: the engine lock is never left held by a call that has returned, so
\* it is free or held by a dispatcher step that is still under way.
C26_LockAlwaysReleased == mux \in {"free", "loop"}

\* C27: a Start call that failed validation leaves the engine not running:
\* when the last Start ended in the validation failure and the caller went
\* on, the running flag is false (so IsRunning is false, a later Start is
\* not refused and a Wait has no flag to wait for).
C27_FailedStartNotRunning ==
  (startret = "panic" /\ crashed = "no") => ~running

\* C28: the fatal branch of assignment is unreachable: whenever the
\* dispatcher of rev B, holding the engine lock, has seen a Pending URL and
\* is about to call selectPending, a URL is Pending, whatever Add calls came
\* in between; so selectPending never comes back empty and the panic never
\* happens.
C28_SelectPendingFindsOne ==
  /\ crashed # "selectPending"
  /\ \A g \in Gens :
       (rev = "B" /\ loop[g] = "assign") =>
         (mux = "loop" /\ urlindex[StatePending] # {})

\* the dispatcher of rev B is about to call selectPending while the other
\* generation's worker is in flight and more than one URL is Pending
C28_Witness ==
  /\ rev = "B"
  /\ \E g \in Gens : loop[g] = "assign"
  /\ \E w \in Workers : wbusy[w]
  /\ Cardinality(urlindex[StatePending]) >= 2

\* C29: at most one dispatcher loop is active at any time, and every worker
\* in flight has the loop of its own generation, the one that receives on
\* its results channel, still active to drain it.
C29_OneLoop ==
  /\ Cardinality({g \in Gens : loop[g] \in {"run", "assign", "reassign", "exit"}}) <= 1
  /\ crashed = "no" =>
       \A w \in Workers :
         wbusy[w] => loop[w[1]] \in {"run", "assign", "reassign", "exit"}

\* C30: once Wait has returned and Start is not called again (here: Start
\* has completed once in the whole behaviour and no Start is under way), the
\* registry is stable: no registered URL changes its state, no worker is
\* busy, no handler is invoked and no result is published by any later step,
\* whether or not the loop has executed its exit and whatever Add does.
C30_StableAfterWait ==
  [][(waitpc = "returned" /\ gen' = 1 /\ startpc' = "idle") =>
       /\ \A u \in URL : urlstate[u] # StateNotFound => urlstate'[u] = urlstate[u]
       /\ \A w \in Workers : ~wbusy[w] /\ ~wbusy'[w] /\ task'[w] = task[w]
       /\ handled' = handled]_vars
====
